---- MODULE Spec2Model ----
(* Model of rig-core/src/loaders/epub.rs: the Loadable resolver (PathBuf and   *)
(* Result<T, EpubLoaderError>) and the staged lazy pipeline EpubFileLoader.    *)
EXTENDS Integers, Sequences, FiniteSets, TLC

VARIABLES
    fs,        \* the filesystem: what each path holds
    built,     \* outcome of construction: "no", "Ok" or "Err"
    ctorErr,   \* the error returned by a failed construction (<<>> or <<e>>)
    cands,     \* the underlying iterator's items, in enumeration order
    loaders,   \* stages of the EpubFileLoader values that currently own the iterator
    pc,        \* position inside Map::next: "idle", "fetched", "resolved"
    nextIdx,   \* position of the underlying iterator (index of the next item)
    inflight,  \* the item currently inside Map::next (at most one)
    out,       \* the items yielded to the consumer, in order
    opened,    \* log of EpubDoc::new calls: [idx |-> candidate index, path |-> p]
    exhausted, \* the consumer has seen None
    applied    \* the transition that was taken: "none", "doc" or "pathdoc"

vars == <<fs, built, ctorErr, cands, loaders, pc, nextIdx, inflight, out, opened, exhausted, applied>>

\* ---------------------------------------------------------------- bounds
MaxLen == 3

\* ---------------------------------------------------------------- values
Paths == {"a.epub", "b.txt", "c.epub"}
Contents == {"missing", "garbage", "book"}
Patterns == {"*.epub", "[bad"}

Ok(v) == [ok |-> TRUE, val |-> v]
Err(e) == [ok |-> FALSE, err |-> e]

\* EpubLoaderError variants
FileLoaderError(x) == [variant |-> "FileLoaderError", payload |-> x]
FromUtf8Error(x) == [variant |-> "FromUtf8Error", payload |-> x]
EpubError(d) == [variant |-> "EpubError", payload |-> d]

\* variant of FromDocError that files the DocError under another variant
FromDocErrorOtherVariant(d) == FromUtf8Error(d)

\* #[from] DocError: the conversion the ? operator applies to a DocError
FromDocError(d) == EpubError(d)

\* errors an item may already carry at the fallible-path stage
PriorErrors == {FileLoaderError("glob1"), FileLoaderError("glob2"), FromUtf8Error("utf8")}

PathItems == {Ok(p) : p \in Paths} \cup {Err(e) : e \in PriorErrors}

RECURSIVE SeqsUpTo(_, _)
SeqsUpTo(S, n) ==
    IF n = 0 THEN {<<>>}
    ELSE LET shorter == SeqsUpTo(S, n - 1)
         IN shorter \cup {Append(s, x) : s \in {t \in shorter : Len(t) = n - 1}, x \in S}

\* ---------------------------------------------------------------- resolver
\* EpubDoc::new(path): one open + container parse of the file at path.
\* Returns the result together with the open attempts it made.
EpubDocNew(p, files) ==
    [res   |-> IF files[p] = "missing" THEN [ok |-> FALSE, derr |-> "IOError"]
               ELSE IF files[p] = "garbage" THEN [ok |-> FALSE, derr |-> "ArchiveError"]
               ELSE [ok |-> TRUE, doc |-> [file |-> p]],
     opens |-> <<p>>]

\* variant of PathLoad that retries a failed open once
PathLoadRetry(p, files) ==
    LET r == EpubDocNew(p, files)
    IN [res   |-> IF r.res.ok THEN Ok(r.res.doc) ELSE Err(EpubError(r.res.derr)),
        opens |-> IF r.res.ok THEN r.opens ELSE r.opens \o r.opens]

\* variant of PathLoad that reports a failed open as a file-loader error
PathLoadIoVariant(p, files) ==
    LET r == EpubDocNew(p, files)
    IN [res   |-> IF r.res.ok THEN Ok(r.res.doc) ELSE Err(FileLoaderError(r.res.derr)),
        opens |-> r.opens]

\* <PathBuf as Loadable>::load
PathLoad(p, files) ==
    LET r == EpubDocNew(p, files)
    IN [res   |-> IF r.res.ok THEN Ok(r.res.doc) ELSE Err(EpubError(r.res.derr)),
        opens |-> r.opens]

\* variant of PathLoadWithPath that pairs the document with a rebuilt path
PathLoadWithPathRebuilt(p, files) ==
    LET contents == EpubDocNew(p, files)
    IN [res   |-> IF contents.res.ok
                  THEN Ok([path |-> "./rebuilt", doc |-> contents.res.doc])
                  ELSE Err(FromDocError(contents.res.derr)),
        opens |-> contents.opens]

\* <PathBuf as Loadable>::load_with_path
PathLoadWithPath(p, files) ==
    LET contents == EpubDocNew(p, files)
    IN [res   |-> IF contents.res.ok
                  THEN Ok([path |-> p, doc |-> contents.res.doc])
                  ELSE Err(FromDocError(contents.res.derr)),
        opens |-> contents.opens]

\* variant of ResultLoad that re-classifies an earlier error
ResultLoadReclassify(item, files) ==
    IF item.ok THEN PathLoad(item.val, files)
    ELSE [res |-> Err(EpubError(item.err.payload)), opens |-> <<>>]

\* <Result<T, EpubLoaderError> as Loadable>::load
ResultLoad(item, files) ==
    IF item.ok THEN PathLoad(item.val, files)
    ELSE [res |-> Err(item.err), opens |-> <<>>]

\* <Result<T, EpubLoaderError> as Loadable>::load_with_path
ResultLoadWithPath(item, files) ==
    IF item.ok THEN PathLoadWithPath(item.val, files)
    ELSE [res |-> Err(item.err), opens |-> <<>>]

\* the closure a post-load stage applies to each item
Closure(s, item, files) ==
    IF s = "doc" THEN ResultLoad(item, files) ELSE ResultLoadWithPath(item, files)

PostLoad == {"doc", "pathdoc"}

\* ---------------------------------------------------------------- actions
Init ==
    /\ fs \in [Paths -> Contents]
    /\ built = "no"
    /\ ctorErr = <<>>
    /\ cands = <<>>
    /\ loaders = {}
    /\ pc = "idle"
    /\ nextIdx = 1
    /\ inflight = <<>>
    /\ out = <<>>
    /\ opened = <<>>
    /\ exhausted = FALSE
    /\ applied = "none"

\* variant of WithGlob that defers a malformed pattern into the sequence
WithGlobDeferred ==
    /\ built = "no"
    /\ \E pat \in Patterns :
         IF pat = "[bad"
         THEN /\ cands' = <<Err(FileLoaderError("PatternError"))>>
         ELSE \E c \in SeqsUpTo(PathItems, MaxLen) : cands' = c
    /\ built' = "Ok"
    /\ loaders' = {"path"}
    /\ UNCHANGED <<fs, ctorErr, pc, nextIdx, inflight, out, opened, exhausted, applied>>

\* EpubFileLoader::with_glob(pattern)?: a malformed pattern fails construction;
\* otherwise the enumerated candidates become the pipeline's iterator.
WithGlob ==
    /\ built = "no"
    /\ \E pat \in Patterns :
         IF pat = "[bad"
         THEN /\ built' = "Err"
              /\ ctorErr' = <<FileLoaderError("PatternError")>>
              /\ UNCHANGED <<cands, loaders>>
         ELSE /\ built' = "Ok"
              /\ \E c \in SeqsUpTo(PathItems, MaxLen) : cands' = c
              /\ loaders' = {"path"}
              /\ UNCHANGED ctorErr
    /\ UNCHANGED <<fs, pc, nextIdx, inflight, out, opened, exhausted, applied>>

\* variant of Load that opens every candidate when the transition is applied
LoadEager ==
    /\ "path" \in loaders
    /\ loaders' = (loaders \ {"path"}) \cup {"doc"}
    /\ applied' = "doc"
    /\ opened' = [k \in 1..Len(cands) |-> [idx |-> k, path |-> "a.epub"]]
    /\ UNCHANGED <<fs, built, ctorErr, cands, pc, nextIdx, inflight, out, exhausted>>

\* EpubFileLoader::load(self)
Load ==
    /\ "path" \in loaders
    /\ loaders' = (loaders \ {"path"}) \cup {"doc"}
    /\ applied' = "doc"
    /\ UNCHANGED <<fs, built, ctorErr, cands, pc, nextIdx, inflight, out, opened, exhausted>>

\* variant of LoadWithPath that borrows the source pipeline instead of consuming it
LoadWithPathShared ==
    /\ "path" \in loaders
    /\ loaders' = loaders \cup {"pathdoc"}
    /\ applied' = "pathdoc"
    /\ UNCHANGED <<fs, built, ctorErr, cands, pc, nextIdx, inflight, out, opened, exhausted>>

\* EpubFileLoader::load_with_path(self)
LoadWithPath ==
    /\ "path" \in loaders
    /\ loaders' = (loaders \ {"path"}) \cup {"pathdoc"}
    /\ applied' = "pathdoc"
    /\ UNCHANGED <<fs, built, ctorErr, cands, pc, nextIdx, inflight, out, opened, exhausted>>

\* variant of Request that skips a candidate equal to the one before it
RequestDedup ==
    /\ loaders \cap PostLoad # {}
    /\ pc = "idle"
    /\ ~exhausted
    /\ LET skip == IF nextIdx > 1 /\ nextIdx <= Len(cands) /\ cands[nextIdx] = cands[nextIdx - 1]
                   THEN 1 ELSE 0
           at == nextIdx + skip
       IN IF at > Len(cands)
          THEN /\ exhausted' = TRUE
               /\ UNCHANGED <<pc, nextIdx, inflight>>
          ELSE /\ inflight' = Append(inflight, [idx |-> at, item |-> cands[at]])
               /\ nextIdx' = at + 1
               /\ pc' = "fetched"
               /\ UNCHANGED exhausted
    /\ UNCHANGED <<fs, built, ctorErr, cands, loaders, out, opened, applied>>

\* variant of Request that fetches one candidate ahead of the consumer
RequestLookAhead ==
    /\ loaders \cap PostLoad # {}
    /\ pc = "idle"
    /\ ~exhausted
    /\ IF nextIdx > Len(cands)
       THEN /\ exhausted' = TRUE
            /\ UNCHANGED <<pc, nextIdx, inflight>>
       ELSE LET last == IF nextIdx + 1 <= Len(cands) THEN nextIdx + 1 ELSE nextIdx
            IN /\ inflight' = inflight \o [k \in 1..(last - nextIdx + 1) |->
                                  [idx |-> nextIdx + k - 1, item |-> cands[nextIdx + k - 1]]]
               /\ nextIdx' = last + 1
               /\ pc' = "fetched"
               /\ UNCHANGED exhausted
    /\ UNCHANGED <<fs, built, ctorErr, cands, loaders, out, opened, applied>>

\* Map::next, first half: the consumer asks for an item and the underlying
\* iterator hands over its next one (or None).
Request ==
    /\ loaders \cap PostLoad # {}
    /\ pc = "idle"
    /\ ~exhausted
    /\ IF nextIdx > Len(cands)
       THEN /\ exhausted' = TRUE
            /\ UNCHANGED <<pc, nextIdx, inflight>>
       ELSE /\ inflight' = Append(inflight, [idx |-> nextIdx, item |-> cands[nextIdx]])
            /\ nextIdx' = nextIdx + 1
            /\ pc' = "fetched"
            /\ UNCHANGED exhausted
    /\ UNCHANGED <<fs, built, ctorErr, cands, loaders, out, opened, applied>>

\* Map::next, second half: the recorded closure runs on the fetched item.
Resolve ==
    /\ pc = "fetched"
    /\ \E s \in loaders \cap PostLoad :
         LET cur == inflight[1]
             r == Closure(s, cur.item, fs)
         IN /\ inflight' = <<[idx |-> cur.idx, item |-> r.res]>> \o Tail(inflight)
            /\ opened' = opened \o [k \in 1..Len(r.opens) |-> [idx |-> cur.idx, path |-> r.opens[k]]]
    /\ pc' = "resolved"
    /\ UNCHANGED <<fs, built, ctorErr, cands, loaders, nextIdx, out, exhausted, applied>>

\* Map::next returns: the item moves out of the pipeline to the consumer.
Yield ==
    /\ pc = "resolved"
    /\ out' = Append(out, inflight[1].item)
    /\ inflight' = Tail(inflight)
    /\ pc' = "idle"
    /\ UNCHANGED <<fs, built, ctorErr, cands, loaders, nextIdx, opened, exhausted, applied>>

\* the consumer stops iterating and drops the pipeline
Drop ==
    /\ loaders # {}
    /\ pc = "idle"
    /\ loaders' = {}
    /\ UNCHANGED <<fs, built, ctorErr, cands, pc, nextIdx, inflight, out, opened, exhausted, applied>>

Next ==
    \/ WithGlob
    \/ Load
    \/ LoadWithPath
    \/ Request
    \/ Resolve
    \/ Yield
    \/ Drop

Spec == Init /\ [][Next]_vars

\* ---------------------------------------------------------------- properties
PulledIdx == 1..Len(out)

DropPath(r) == IF r.ok THEN Ok(r.val.doc) ELSE r

Opens(p) == fs[p] = "book"

\* the item the consumer must receive for candidate c under transition s
Expected(s, c) ==
    IF ~c.ok THEN Err(c.err)
    ELSE IF fs[c.val] = "missing" THEN Err([variant |-> "EpubError", payload |-> "IOError"])
    ELSE IF fs[c.val] = "garbage" THEN Err([variant |-> "EpubError", payload |-> "ArchiveError"])
    ELSE IF s = "doc" THEN Ok([file |-> c.val])
    ELSE Ok([path |-> c.val, doc |-> [file |-> c.val]])

\* the open attempts owed to the first k candidates: one per Ok item, in order
RECURSIVE OkLog(_)
OkLog(k) ==
    IF k = 0 THEN <<>>
    ELSE IF cands[k].ok THEN Append(OkLog(k - 1), [idx |-> k, path |-> cands[k].val])
    ELSE OkLog(k - 1)

\* C1: after one load or load_with_path and full materialization the consumer
\* holds exactly as many items as there were candidates, and the i-th item is
\* the result for the i-th candidate (no reordering, dropping, duplication or
\* deduplication; zero candidates give the empty sequence).
C1_OrderAndCount ==
    /\ Len(out) <= Len(cands)
    /\ \A i \in PulledIdx : out[i] = Expected(applied, cands[i])
    /\ exhausted => Len(out) = Len(cands)

C1_Witness ==
    /\ exhausted
    /\ Len(cands) = 3
    /\ cands[1] = cands[2]
    /\ cands[1].ok
    /\ Len(out) = 3

\* C2: an item that is already Err(e) before the transition is Err(e), with the
\* same variant and payload, after load and after load_with_path.
C2_PriorErrUnchanged ==
    \A i \in PulledIdx :
        ~cands[i].ok =>
            /\ ~out[i].ok
            /\ out[i].err.variant = cands[i].err.variant
            /\ out[i].err.payload = cands[i].err.payload

C2_Witness ==
    \E i \in PulledIdx : \E j \in PulledIdx :
        /\ cands[i] = Err(FileLoaderError("glob2"))
        /\ cands[j] = Err(FromUtf8Error("utf8"))
        /\ out[i] = cands[i]
        /\ out[j] = cands[j]

\* C3: when the open succeeds, load_with_path pairs the document with the
\* original candidate path, for a bare path and for an Ok(path) item alike.
C3_PathPreserved ==
    /\ \A p \in Paths :
        Opens(p) => /\ PathLoadWithPath(p, fs).res.ok
                    /\ PathLoadWithPath(p, fs).res.val.path = p
    /\ applied = "pathdoc" =>
        \A i \in PulledIdx :
            (cands[i].ok /\ Opens(cands[i].val)) =>
                /\ out[i].ok
                /\ out[i].val.path = cands[i].val

C3_Witness ==
    /\ applied = "pathdoc"
    /\ Len(out) >= 2
    /\ out[1].ok /\ out[2].ok
    /\ out[1].val.path = "c.epub"
    /\ out[2].val.path = "a.epub"

\* C4: an Ok candidate that is missing or not an EPUB container is delivered
\* as Err with the EpubError variant under both transitions, and the failure
\* does not end the sequence: every later candidate is still attempted and
\* yielded.
C4_OpenFailureIsPerItem ==
    /\ \A i \in PulledIdx :
        (cands[i].ok /\ ~Opens(cands[i].val)) =>
            /\ ~out[i].ok
            /\ out[i].err.variant = "EpubError"
    /\ exhausted =>
        /\ Len(out) = Len(cands)
        /\ \A j \in 1..Len(cands) :
            cands[j].ok => \E k \in 1..Len(opened) : opened[k].idx = j

C4_Witness ==
    /\ applied = "pathdoc"
    /\ exhausted
    /\ cands = <<Ok("a.epub"), Ok("b.txt"), Ok("c.epub")>>
    /\ fs["b.txt"] = "garbage"
    /\ Len(out) = 3
    /\ out[1].ok /\ ~out[2].ok /\ out[3].ok

\* C5: a malformed glob pattern fails construction with the enumeration error:
\* no pipeline exists afterwards, nothing is ever opened or yielded, and the
\* error is not deferred into the sequence as an item.
C5_BadPatternFailsConstruction ==
    /\ built = "Err" =>
        /\ ctorErr = <<FileLoaderError("PatternError")>>
        /\ loaders = {}
        /\ cands = <<>>
        /\ out = <<>>
        /\ opened = <<>>
    /\ built = "Ok" => ctorErr = <<>>
    /\ \A i \in 1..Len(cands) : cands[i] # Err(FileLoaderError("PatternError"))

C5_Witness ==
    /\ built = "Err"
    /\ ctorErr # <<>>

\* C6: applying load or load_with_path opens nothing; while the consumer has
\* requested no item the number of open attempts is zero.
C6_Lazy ==
    (nextIdx = 1 /\ out = <<>>) => opened = <<>>

C6_Witness ==
    /\ applied = "doc"
    /\ loaders = {"doc"}
    /\ nextIdx = 1
    /\ Len(cands) = 3
    /\ \A i \in 1..3 : cands[i].ok /\ Opens(cands[i].val)

\* C7: a post-load stage is entered only by a load or load_with_path step taken
\* from the fallible-path stage; that step consumes the source pipeline, at
\* most one pipeline owns the sequence, and a post-load pipeline never
\* changes stage again.
C7_StagedTransitions ==
    [][ /\ \A s \in PostLoad :
            (s \in loaders' /\ s \notin loaders) =>
                /\ "path" \in loaders
                /\ "path" \notin loaders'
        /\ Cardinality(loaders') <= 1
        /\ (loaders \cap PostLoad # {}) => loaders' \subseteq loaders
        /\ (loaders = {} /\ built # "no") => loaders' = {}
      ]_vars

C7_Witness ==
    /\ loaders = {"pathdoc"}
    /\ applied = "pathdoc"
    /\ Len(out) >= 1

\* C8: after k items were pulled the open attempts are exactly one per Ok item
\* among the first k candidates, in order: none for an Err item, no retry and
\* no second open.
C8_OneOpenPerOkItem ==
    opened = OkLog(IF pc = "resolved" THEN Len(out) + 1 ELSE Len(out))

C8_Witness ==
    /\ pc = "idle"
    /\ Len(out) = 3
    /\ ~cands[1].ok
    /\ cands[2].ok /\ ~Opens(cands[2].val)
    /\ cands[3] = cands[2]
    /\ Len(opened) = 2

\* C9: evaluation is pull-based without look-ahead: at most one item is in
\* flight, none between pulls, nothing beyond the requested item has been
\* fetched or opened, and a dropped pipeline holds no item and has opened no
\* candidate past the ones it yielded.
C9_NoLookAhead ==
    /\ Len(inflight) <= 1
    /\ pc = "idle" => inflight = <<>>
    /\ nextIdx = Len(out) + Len(inflight) + 1
    /\ \A k \in 1..Len(opened) : opened[k].idx <= Len(out) + Len(inflight)
    /\ loaders = {} =>
        /\ inflight = <<>>
        /\ \A k \in 1..Len(opened) : opened[k].idx <= Len(out)

C9_Witness ==
    /\ loaders = {}
    /\ built = "Ok"
    /\ Len(out) = 1
    /\ out[1].ok
    /\ Len(cands) = 3
    /\ cands[2].ok /\ Opens(cands[2].val)
    /\ cands[3].ok /\ Opens(cands[3].val)

\* C10: load and load_with_path agree item by item: dropping the path of the
\* load_with_path result gives the load result, with the same document on
\* success and the same error variant and payload on failure.
C10_LoadAgreesWithLoadWithPath ==
    \A i \in PulledIdx :
        /\ applied = "doc" => out[i] = DropPath(ResultLoadWithPath(cands[i], fs).res)
        /\ applied = "pathdoc" => DropPath(out[i]) = ResultLoad(cands[i], fs).res

C10_Witness ==
    /\ applied = "doc"
    /\ Len(out) = 3
    /\ out[1].ok
    /\ ~out[2].ok /\ out[2].err = EpubError("IOError")
    /\ ~out[3].ok /\ out[3].err = EpubError("ArchiveError")

====
